---- MODULE Spec2Model ----
(***************************************************************************)
(* The UNO turn engine (uno_engine/game.py) and its session store          *)
(* (uno_engine/store.py, api/routes.py) as a state machine.                *)
(*                                                                         *)
(* A card is modelled by its id, a positive integer; its colour and value  *)
(* are looked up in Deck, the deck build_uno_deck lays out, scaled down to *)
(* one card of each kind the rules distinguish.  random.Random is          *)
(* modelled by nondeterminism: a shuffled pile is a set and a pop() takes  *)
(* any card of it, rng.choice takes any element.  Fields that no rule      *)
(* reads (names, message, timestamps, last_drawn_card_id) are left out.    *)
(***************************************************************************)
EXTENDS Integers, Sequences, FiniteSets, TLC

VARIABLES
  game,   \* the session's GameState
  pc,     \* where the one request in progress stands: "idle" between requests,
          \* "ai" inside the loop of _auto_resolve_ai_turns
  last,   \* the operation that made the last change
  calls   \* for requests served by concurrent threads: each thread's position

vars == <<game, pc, last, calls>>

NONE == "None"

-----------------------------------------------------------------------------
(* Bounds of the model *)

\* settings.hand_size at creation (7 in the code, scaled to the small deck)
DefaultHandSize == 1

\* play is followed only while no player's score exceeds this
MaxScore == 0

-----------------------------------------------------------------------------
(* Cards and deck *)

VALID_COLORS == <<"red", "yellow", "green", "blue">>

ValidColorSet == {VALID_COLORS[i] : i \in 1..Len(VALID_COLORS)}

\* The kinds of card of the deck, in build order: coloured cards, then wilds.
Deck ==
  << [color |-> "blue", value |-> "1"],
     [color |-> "red",  value |-> "SKIP"],
     [color |-> "red",  value |-> "REVERSE"],
     [color |-> "blue", value |-> "DRAW_TWO"],
     [color |-> "wild", value |-> "WILD_DRAW_FOUR"] >>

DeckSize == Len(Deck)

\* UnoCard(id): the card with that id; ids of a rebuilt deck follow the old ones
UnoCard(id) ==
  [id |-> id,
   color |-> Deck[((id - 1) % DeckSize) + 1].color,
   value |-> Deck[((id - 1) % DeckSize) + 1].value]

Range(s) == {s[i] : i \in 1..Len(s)}

Last(s) == s[Len(s)]

Front(s) == SubSeq(s, 1, Len(s) - 1)

SetMax(S) == CHOOSE m \in S : \A x \in S : x <= m

\* every card id a state holds, wherever it is
AllCardIds(g) ==
  g.draw_pile \cup Range(g.discard_pile)
    \cup UNION {Range(g.players[i].hand) : i \in 1..Len(g.players)}

\* mutant: a rebuilt deck takes the ids of the first deck again
build_uno_deck_SameIds(lastUsed) == 1..DeckSize

\* _new_card_id is a fresh uuid: a new deck takes the first block of
\* DeckSize ids above every id in use (firstFree is the last id in use)
build_uno_deck(lastUsed) ==
  LET base == ((lastUsed + DeckSize - 1) \div DeckSize) * DeckSize
  IN  {base + k : k \in 1..DeckSize}

DigitValue ==
  [v \in {"0", "1", "2", "3", "4", "5", "6", "7", "8", "9"} |->
     CASE v = "0" -> 0 [] v = "1" -> 1 [] v = "2" -> 2 [] v = "3" -> 3
       [] v = "4" -> 4 [] v = "5" -> 5 [] v = "6" -> 6 [] v = "7" -> 7
       [] v = "8" -> 8 [] v = "9" -> 9]

_is_numeric(v) == v \in DOMAIN DigitValue

\* mutant: a wild card left in a hand counts like an action card
score_card_WildAsAction(card) ==
  IF card.value \in {"SKIP", "REVERSE", "DRAW_TWO", "WILD", "WILD_DRAW_FOUR"} THEN 20
  ELSE IF _is_numeric(card.value) THEN DigitValue[card.value]
  ELSE 0

score_card(card) ==
  IF card.value \in {"SKIP", "REVERSE", "DRAW_TWO"} THEN 20
  ELSE IF card.value \in {"WILD", "WILD_DRAW_FOUR"} THEN 50
  ELSE IF _is_numeric(card.value) THEN DigitValue[card.value]
  ELSE 0

-----------------------------------------------------------------------------
(* Rule predicates *)

can_play_on(card, top, current_color) ==
  IF card.color = "wild" THEN TRUE
  ELSE LET color_to_match == IF current_color # NONE THEN current_color ELSE top.color
       IN  IF card.color = color_to_match THEN TRUE
           ELSE card.value = top.value

_next_index(g, steps) ==
  (g.current_player_index + g.direction * steps) % Len(g.players)

\* cur = state.players[state.current_player_index]; Python indexes from 0
CurPos(g) == g.current_player_index + 1

Cur(g) == g.players[CurPos(g)]

Top(g) == UnoCard(Last(g.discard_pile))

-----------------------------------------------------------------------------
(* Drawing *)

\* mutant: the whole discard pile, its top included, becomes the draw pile
_reshuffle_if_needed_TopIncluded(g) ==
  IF g.draw_pile # {} THEN g
  ELSE IF Len(g.discard_pile) <= 1 THEN g
  ELSE [g EXCEPT !.draw_pile = Range(g.discard_pile),
                 !.discard_pile = <<Last(g.discard_pile)>>]

_reshuffle_if_needed(g) ==
  IF g.draw_pile # {} THEN g
  ELSE IF Len(g.discard_pile) <= 1 THEN g
  ELSE [g EXCEPT !.draw_pile = Range(Front(g.discard_pile)),
                 !.discard_pile = <<Last(g.discard_pile)>>]

\* the states the pile can be in when _draw_one pops, after the reshuffle and
\* the last-resort rebuild
BeforePop(g) ==
  LET g1 == _reshuffle_if_needed(g)
  IN  IF g1.draw_pile = {}
      THEN [g1 EXCEPT !.draw_pile = build_uno_deck(SetMax(AllCardIds(g1) \cup {0}))]
      ELSE g1

\* _draw_one: every (state, card) a pop of the shuffled pile can give
_draw_one(g) ==
  LET g2 == BeforePop(g)
  IN  {[g |-> [g2 EXCEPT !.draw_pile = @ \ {c}], c |-> c] : c \in g2.draw_pile}

\* _draw_cards_to_player: every (state, drawn) that count draws to the
\* player at position pos can give
RECURSIVE _draw_cards_to_player(_, _, _)
_draw_cards_to_player(g, pos, count) ==
  IF count <= 0 THEN {[g |-> g, drawn |-> <<>>]}
  ELSE UNION {
         LET g1 == [one.g EXCEPT !.players[pos].hand = Append(@, one.c)]
         IN  {[g |-> r.g, drawn |-> <<one.c>> \o r.drawn] :
                r \in _draw_cards_to_player(g1, pos, count - 1)}
         : one \in _draw_one(g)}


-----------------------------------------------------------------------------
(* Effects of a card, end of a round *)

\* mutant: REVERSE gives one step whatever the number of players
_apply_action_effects_after_play_ReverseOneStep(g, played) ==
  IF played.value = "SKIP" THEN [g |-> g, skip_steps |-> 2, flip |-> FALSE]
  ELSE IF played.value = "REVERSE" THEN [g |-> g, skip_steps |-> 1, flip |-> TRUE]
  ELSE IF played.value = "DRAW_TWO"
    THEN [g |-> [g EXCEPT !.pending_draw = @ + 2], skip_steps |-> 2, flip |-> FALSE]
  ELSE IF played.value = "WILD_DRAW_FOUR"
    THEN [g |-> [g EXCEPT !.pending_draw = @ + 4], skip_steps |-> 2, flip |-> FALSE]
  ELSE [g |-> g, skip_steps |-> 1, flip |-> FALSE]

\* mutant: SKIP gives one step
_apply_action_effects_after_play_SkipOneStep(g, played) ==
  IF played.value = "SKIP" THEN [g |-> g, skip_steps |-> 1, flip |-> FALSE]
  ELSE IF played.value = "REVERSE"
    THEN IF Len(g.players) = 2 THEN [g |-> g, skip_steps |-> 2, flip |-> TRUE]
         ELSE [g |-> g, skip_steps |-> 1, flip |-> TRUE]
  ELSE IF played.value = "DRAW_TWO"
    THEN [g |-> [g EXCEPT !.pending_draw = @ + 2], skip_steps |-> 2, flip |-> FALSE]
  ELSE IF played.value = "WILD_DRAW_FOUR"
    THEN [g |-> [g EXCEPT !.pending_draw = @ + 4], skip_steps |-> 2, flip |-> FALSE]
  ELSE [g |-> g, skip_steps |-> 1, flip |-> FALSE]

\* (state with pending_draw updated, skip_steps, flips_direction)
_apply_action_effects_after_play(g, played) ==
  LET n == Len(g.players)
  IN  IF played.value = "SKIP" THEN [g |-> g, skip_steps |-> 2, flip |-> FALSE]
      ELSE IF played.value = "REVERSE"
        THEN IF n = 2 THEN [g |-> g, skip_steps |-> 2, flip |-> TRUE]
             ELSE [g |-> g, skip_steps |-> 1, flip |-> TRUE]
      ELSE IF played.value = "DRAW_TWO"
        THEN [g |-> [g EXCEPT !.pending_draw = @ + 2], skip_steps |-> 2, flip |-> FALSE]
      ELSE IF played.value = "WILD_DRAW_FOUR"
        THEN [g |-> [g EXCEPT !.pending_draw = @ + 4], skip_steps |-> 2, flip |-> FALSE]
      ELSE [g |-> g, skip_steps |-> 1, flip |-> FALSE]

RECURSIVE SumScores(_)
SumScores(hand) ==
  IF hand = <<>> THEN 0 ELSE score_card(UnoCard(Head(hand))) + SumScores(Tail(hand))

RECURSIVE SumOver(_, _)
SumOver(f, S) ==
  IF S = {} THEN 0 ELSE LET x == CHOOSE y \in S : TRUE IN f[x] + SumOver(f, S \ {x})

\* the hands that count for the winner at position w: every other player's
HandPoints(g, w) ==
  SumOver([i \in 1..Len(g.players) |->
             IF g.players[i].id = g.players[w].id THEN 0
             ELSE SumScores(g.players[i].hand)],
          1..Len(g.players))

\* (won, state): the first player with an empty hand wins the round
_resolve_round_if_won(g) ==
  LET empty == {i \in 1..Len(g.players) : Len(g.players[i].hand) = 0}
  IN  IF empty = {} THEN [won |-> FALSE, g |-> g]
      ELSE LET w == CHOOSE i \in empty : \A j \in empty : i <= j
               points == HandPoints(g, w)
               total == g.players[w].score + points
           IN  [won |-> TRUE,
                g |-> [g EXCEPT !.players[w].score = total,
                                !.winner_player_id = g.players[w].id,
                                !.status = IF total >= g.settings.score_limit
                                           THEN "match_over" ELSE "round_over"]]

\* what every play does once the card lies on the discard pile: the card's
\* effect, the flip, the round check and, if the round goes on, the advance
ApplyEffectsAndAdvance(g, card) ==
  LET e == _apply_action_effects_after_play(g, card)
      g1 == IF e.flip THEN [e.g EXCEPT !.direction = -@] ELSE e.g
      r == _resolve_round_if_won(g1)
  IN  IF r.won THEN r.g
      ELSE [g1 EXCEPT !.current_player_index = _next_index(g1, e.skip_steps)]

RemoveCard(hand, id) == SelectSeq(hand, LAMBDA c : c # id)

-----------------------------------------------------------------------------
(* The automated player's choices *)

NoCard == 0

ColorCount(hand, col) ==
  Cardinality({i \in 1..Len(hand) : UnoCard(hand[i]).color = col})

\* max() over the colour counts keeps the first of the largest
_ai_choose_color(hand) ==
  LET best == CHOOSE i \in 1..Len(VALID_COLORS) :
                /\ \A j \in 1..Len(VALID_COLORS) :
                     ColorCount(hand, VALID_COLORS[j]) <= ColorCount(hand, VALID_COLORS[i])
                /\ \A j \in 1..(i - 1) :
                     ColorCount(hand, VALID_COLORS[j]) < ColorCount(hand, VALID_COLORS[i])
  IN  VALID_COLORS[best]

prio(c) ==
  IF c.value \in {"WILD_DRAW_FOUR", "DRAW_TWO", "SKIP", "REVERSE"} THEN 0
  ELSE IF c.value = "WILD" THEN 1
  ELSE IF _is_numeric(c.value) THEN 2
  ELSE 3

\* (chosen, chosen_color): the first playable card of the lowest prio
_ai_choose_play(g, player) ==
  IF g.discard_pile = <<>> THEN [chosen |-> NoCard, color |-> NONE]
  ELSE
    LET playable == SelectSeq(player.hand,
                      LAMBDA id : can_play_on(UnoCard(id), Top(g), g.current_color))
    IN  IF playable = <<>> THEN [chosen |-> NoCard, color |-> NONE]
        ELSE LET k == CHOOSE i \in 1..Len(playable) :
                        /\ \A j \in 1..Len(playable) :
                             prio(UnoCard(playable[i])) <= prio(UnoCard(playable[j]))
                        /\ \A j \in 1..(i - 1) :
                             prio(UnoCard(playable[j])) > prio(UnoCard(playable[i]))
                 chosen == playable[k]
             IN  [chosen |-> chosen,
                  color |-> IF UnoCard(chosen).color = "wild"
                            THEN _ai_choose_color(player.hand) ELSE NONE]


-----------------------------------------------------------------------------
(* Creating a game and restarting a round *)

DefaultAiDelayMs == 250

DefaultScoreLimit == 500

GameSettings ==
  [hand_size |-> DefaultHandSize,
   ai_enabled |-> TRUE,
   ai_delay_ms |-> DefaultAiDelayMs,
   auto_play_if_drawn_playable |-> TRUE,
   allow_illegal_wild_draw_four |-> FALSE,
   score_limit |-> DefaultScoreLimit]

Player(id, is_ai) == [id |-> id, is_ai |-> is_ai, score |-> 0, hand |-> <<>>]

\* the players new_game seats for a mode
NewPlayers(mode, settings) ==
  IF mode \in {"singleplayer", "vs_ai"}
  THEN IF settings.ai_enabled
       THEN <<Player("p1", FALSE), Player("p2", TRUE)>>
       ELSE <<Player("p1", FALSE)>>
  ELSE IF mode \in {"local", "multiplayer"}
  THEN <<Player("p1", FALSE), Player("p2", FALSE)>>
  ELSE <<Player("p1", FALSE)>>

\* for p in players: _draw_cards_to_player(st, p, hand_size, rng), from
\* position pos on: every state the deal can give
RECURSIVE Deal(_, _)
Deal(g, pos) ==
  IF pos > Len(g.players) THEN {g}
  ELSE UNION {Deal(r.g, pos + 1) :
                r \in _draw_cards_to_player(g, pos, g.settings.hand_size)}

\* mutant: the active colour is the colour printed on the starting card
_find_starting_discard_PrintedColor(g) ==
  {[g |-> [one.g EXCEPT !.discard_pile = Append(@, one.c),
                        !.current_color = UnoCard(one.c).color],
    first |-> UnoCard(one.c)] : one \in _draw_one(g)}

\* every (state, first card) the flip of the starting discard can give
_find_starting_discard(g) ==
  UNION {
    LET c == UnoCard(one.c)
        g1 == [one.g EXCEPT !.discard_pile = Append(@, one.c)]
    IN  IF c.value \in {"WILD", "WILD_DRAW_FOUR"}
        THEN {[g |-> [g1 EXCEPT !.current_color = col], first |-> c] :
                col \in ValidColorSet}
        ELSE IF c.color \in ValidColorSet
        THEN {[g |-> [g1 EXCEPT !.current_color = c.color], first |-> c]}
        ELSE {[g |-> [g1 EXCEPT !.current_color = col], first |-> c] :
                col \in ValidColorSet}
    : one \in _draw_one(g)}

\* a starting action card acts as if played before the first turn
ApplyStartingEffect(g, first) ==
  IF first.value \in {"SKIP", "REVERSE", "DRAW_TWO", "WILD_DRAW_FOUR"}
  THEN LET e == _apply_action_effects_after_play(g, first)
           g1 == IF e.flip THEN [e.g EXCEPT !.direction = -@] ELSE e.g
       IN  [g1 EXCEPT !.current_player_index = _next_index(g1, e.skip_steps - 1)]
  ELSE g

\* every state new_game can return for a mode
new_game(mode) ==
  LET st == [status |-> "playing",
             players |-> NewPlayers(mode, GameSettings),
             current_player_index |-> 0,
             direction |-> 1,
             draw_pile |-> build_uno_deck(0),
             discard_pile |-> <<>>,
             current_color |-> NONE,
             pending_draw |-> 0,
             must_play_or_pass |-> FALSE,
             winner_player_id |-> NONE,
             settings |-> GameSettings]
  IN  UNION {{[ApplyStartingEffect(f.g, f.first) EXCEPT !.status = "playing"] :
                f \in _find_starting_discard(dealt)} : dealt \in Deal(st, 1)}

\* mutant: the turn pointer, the direction and the penalty are not reset
restart_round_NoTurnReset(g) ==
  LET g0 == [g EXCEPT !.players = [i \in 1..Len(g.players) |->
                                     [g.players[i] EXCEPT !.hand = <<>>]],
                      !.draw_pile = build_uno_deck(0),
                      !.discard_pile = <<>>]
      reset(h) == [h EXCEPT !.must_play_or_pass = FALSE,
                            !.winner_player_id = NONE,
                            !.status = "playing"]
  IN  UNION {{ApplyStartingEffect(reset(f.g), f.first) :
                f \in _find_starting_discard(dealt)} : dealt \in Deal(g0, 1)}

\* mutant: a restart clears the scores with the hands
restart_round_ScoresCleared(g) ==
  LET g0 == [g EXCEPT !.players = [i \in 1..Len(g.players) |->
                                     [g.players[i] EXCEPT !.hand = <<>>, !.score = 0]],
                      !.draw_pile = build_uno_deck(0),
                      !.discard_pile = <<>>,
                      !.current_player_index = 0,
                      !.direction = 1,
                      !.pending_draw = 0,
                      !.must_play_or_pass = FALSE,
                      !.winner_player_id = NONE,
                      !.status = "playing"]
  IN  UNION {{ApplyStartingEffect(f.g, f.first) :
                f \in _find_starting_discard(dealt)} : dealt \in Deal(g0, 1)}

\* every state restart_round can leave; the old cards are dropped, so the new
\* deck's fresh ids are numbered from 1 again
restart_round(g) ==
  LET g0 == [g EXCEPT !.players = [i \in 1..Len(g.players) |->
                                     [g.players[i] EXCEPT !.hand = <<>>]],
                      !.draw_pile = build_uno_deck(0),
                      !.discard_pile = <<>>]
      reset(h) == [h EXCEPT !.current_player_index = 0,
                            !.direction = 1,
                            !.pending_draw = 0,
                            !.must_play_or_pass = FALSE,
                            !.winner_player_id = NONE,
                            !.status = "playing"]
  IN  UNION {{ApplyStartingEffect(reset(f.g), f.first) :
                f \in _find_starting_discard(dealt)} : dealt \in Deal(g0, 1)}

-----------------------------------------------------------------------------
(* Checks every action starts with *)

\* mutant: the status is not checked
_require_playing_NoStatusCheck(g) == "ok"

_require_playing(g) == IF g.status # "playing" THEN "GameNotPlaying" ELSE "ok"

\* the position of the player with that id, 0 if there is none
_get_player(g, player_id) ==
  LET found == {i \in 1..Len(g.players) : g.players[i].id = player_id}
  IN  IF found = {} THEN 0 ELSE CHOOSE i \in found : \A j \in found : i <= j

\* mutant: the turn is not checked
_require_turn_NoTurnCheck(g, player_id) ==
  IF _require_playing(g) # "ok" THEN _require_playing(g)
  ELSE IF _get_player(g, player_id) = 0 THEN "UnknownPlayer"
  ELSE "ok"

_require_turn(g, player_id) ==
  IF _require_playing(g) # "ok" THEN _require_playing(g)
  ELSE IF _get_player(g, player_id) = 0 THEN "UnknownPlayer"
  ELSE IF Cur(g).id # player_id THEN "NotYourTurn"
  ELSE "ok"


-----------------------------------------------------------------------------
(* The public operations, up to the call of _auto_resolve_ai_turns *)

\* raise UnoRuleError(e): the caller gets the error, the state stays as the
\* statements before the raise left it
Raise(e, g) == [err |-> e, g |-> g]

\* mutant: the chosen colour is stored before the Wild Draw Four check
play_card_ColorBeforeCheck(g, player_id, card_id, chosen_color) ==
  LET pos == _get_player(g, player_id)
      player == g.players[pos]
      card == UnoCard(card_id)
      is_wild == card.value \in {"WILD", "WILD_DRAW_FOUR"}
      g1 == IF is_wild THEN [g EXCEPT !.current_color = chosen_color]
            ELSE IF card.color \in ValidColorSet
            THEN [g EXCEPT !.current_color = card.color]
            ELSE g
      g2 == [g1 EXCEPT !.players[pos].hand = RemoveCard(@, card_id),
                       !.discard_pile = Append(@, card_id),
                       !.must_play_or_pass = FALSE]
  IN  IF _require_turn(g, player_id) # "ok" THEN Raise(_require_turn(g, player_id), g)
      ELSE IF g.pending_draw > 0 THEN Raise("PendingDrawUnresolved", g)
      ELSE IF g.discard_pile = <<>> THEN Raise("NoDiscardPile", g)
      ELSE IF card_id \notin Range(player.hand) THEN Raise("CardNotInHand", g)
      ELSE IF ~can_play_on(card, Top(g), g.current_color) THEN Raise("IllegalPlay", g)
      ELSE IF is_wild /\ chosen_color \notin ValidColorSet
        THEN Raise("MissingColorChoice", g)
      ELSE IF is_wild /\ ~g.settings.allow_illegal_wild_draw_four
              /\ card.value = "WILD_DRAW_FOUR"
              /\ \E i \in 1..Len(player.hand) :
                   /\ player.hand[i] # card_id
                   /\ UnoCard(player.hand[i]).color = g.current_color
        THEN Raise("WildDrawFourRestricted", g1)
      ELSE [err |-> "ok", g |-> ApplyEffectsAndAdvance(g2, card)]

\* mutant: a wild card is accepted without a valid chosen colour
play_card_NoColorCheck(g, player_id, card_id, chosen_color) ==
  LET pos == _get_player(g, player_id)
      player == g.players[pos]
      card == UnoCard(card_id)
      is_wild == card.value \in {"WILD", "WILD_DRAW_FOUR"}
      color_to_match ==
        IF g.current_color # NONE THEN g.current_color
        ELSE IF Top(g).color \in ValidColorSet THEN Top(g).color ELSE NONE
      g1 == IF is_wild THEN [g EXCEPT !.current_color = chosen_color]
            ELSE IF card.color \in ValidColorSet
            THEN [g EXCEPT !.current_color = card.color]
            ELSE g
      g2 == [g1 EXCEPT !.players[pos].hand = RemoveCard(@, card_id),
                       !.discard_pile = Append(@, card_id),
                       !.must_play_or_pass = FALSE]
  IN  IF _require_turn(g, player_id) # "ok" THEN Raise(_require_turn(g, player_id), g)
      ELSE IF g.pending_draw > 0 THEN Raise("PendingDrawUnresolved", g)
      ELSE IF g.discard_pile = <<>> THEN Raise("NoDiscardPile", g)
      ELSE IF card_id \notin Range(player.hand) THEN Raise("CardNotInHand", g)
      ELSE IF ~can_play_on(card, Top(g), g.current_color) THEN Raise("IllegalPlay", g)
      ELSE IF /\ is_wild
              /\ ~g.settings.allow_illegal_wild_draw_four
              /\ card.value = "WILD_DRAW_FOUR"
              /\ color_to_match # NONE
              /\ \E i \in 1..Len(player.hand) :
                   /\ player.hand[i] # card_id
                   /\ UnoCard(player.hand[i]).color = color_to_match
        THEN Raise("WildDrawFourRestricted", g)
      ELSE [err |-> "ok", g |-> ApplyEffectsAndAdvance(g2, card)]

\* mutant: a Wild Draw Four is accepted whatever the hand holds
play_card_NoWildDrawFourCheck(g, player_id, card_id, chosen_color) ==
  LET pos == _get_player(g, player_id)
      player == g.players[pos]
      card == UnoCard(card_id)
      is_wild == card.value \in {"WILD", "WILD_DRAW_FOUR"}
      g1 == IF is_wild THEN [g EXCEPT !.current_color = chosen_color]
            ELSE IF card.color \in ValidColorSet
            THEN [g EXCEPT !.current_color = card.color]
            ELSE g
      g2 == [g1 EXCEPT !.players[pos].hand = RemoveCard(@, card_id),
                       !.discard_pile = Append(@, card_id),
                       !.must_play_or_pass = FALSE]
  IN  IF _require_turn(g, player_id) # "ok" THEN Raise(_require_turn(g, player_id), g)
      ELSE IF g.pending_draw > 0 THEN Raise("PendingDrawUnresolved", g)
      ELSE IF g.discard_pile = <<>> THEN Raise("NoDiscardPile", g)
      ELSE IF card_id \notin Range(player.hand) THEN Raise("CardNotInHand", g)
      ELSE IF ~can_play_on(card, Top(g), g.current_color) THEN Raise("IllegalPlay", g)
      ELSE IF is_wild /\ chosen_color \notin ValidColorSet
        THEN Raise("MissingColorChoice", g)
      ELSE [err |-> "ok", g |-> ApplyEffectsAndAdvance(g2, card)]

\* mutant: a card is accepted while a penalty is pending
play_card_NoPendingCheck(g, player_id, card_id, chosen_color) ==
  LET pos == _get_player(g, player_id)
      card == UnoCard(card_id)
      is_wild == card.value \in {"WILD", "WILD_DRAW_FOUR"}
      g1 == [g EXCEPT !.current_color = IF is_wild THEN chosen_color ELSE card.color]
      g2 == [g1 EXCEPT !.players[pos].hand = RemoveCard(@, card_id),
                       !.discard_pile = Append(@, card_id),
                       !.must_play_or_pass = FALSE]
  IN  IF _require_turn(g, player_id) # "ok" THEN Raise(_require_turn(g, player_id), g)
      ELSE IF g.discard_pile = <<>> THEN Raise("NoDiscardPile", g)
      ELSE IF card_id \notin Range(g.players[pos].hand) THEN Raise("CardNotInHand", g)
      ELSE IF ~can_play_on(card, Top(g), g.current_color) THEN Raise("IllegalPlay", g)
      ELSE IF is_wild /\ chosen_color \notin ValidColorSet
        THEN Raise("MissingColorChoice", g)
      ELSE [err |-> "ok", g |-> ApplyEffectsAndAdvance(g2, card)]

\* (err, state): play_card, statement by statement
play_card(g, player_id, card_id, chosen_color) ==
  LET pos == _get_player(g, player_id)
      player == g.players[pos]
      card == UnoCard(card_id)
      top == Top(g)
      is_wild == card.value \in {"WILD", "WILD_DRAW_FOUR"}
      color_to_match ==
        IF g.current_color # NONE THEN g.current_color
        ELSE IF top.color \in ValidColorSet THEN top.color ELSE NONE
      restricted ==
        /\ ~g.settings.allow_illegal_wild_draw_four
        /\ card.value = "WILD_DRAW_FOUR"
        /\ color_to_match # NONE
        /\ \E i \in 1..Len(player.hand) :
             /\ player.hand[i] # card_id
             /\ UnoCard(player.hand[i]).color = color_to_match
      \* lines 580-584: the active colour
      g1 == IF is_wild THEN [g EXCEPT !.current_color = chosen_color]
            ELSE IF card.color \in ValidColorSet
            THEN [g EXCEPT !.current_color = card.color]
            ELSE g
      \* lines 587-590: the card moves to the discard pile
      g2 == [g1 EXCEPT !.players[pos].hand = RemoveCard(@, card_id),
                       !.discard_pile = Append(@, card_id),
                       !.must_play_or_pass = FALSE]
  IN  IF _require_turn(g, player_id) # "ok" THEN Raise(_require_turn(g, player_id), g)
      ELSE IF g.pending_draw > 0 THEN Raise("PendingDrawUnresolved", g)
      ELSE IF g.discard_pile = <<>> THEN Raise("NoDiscardPile", g)
      ELSE IF card_id \notin Range(player.hand) THEN Raise("CardNotInHand", g)
      ELSE IF ~can_play_on(card, top, g.current_color) THEN Raise("IllegalPlay", g)
      ELSE IF is_wild /\ chosen_color \notin ValidColorSet
        THEN Raise("MissingColorChoice", g)
      ELSE IF is_wild /\ restricted THEN Raise("WildDrawFourRestricted", g)
      ELSE [err |-> "ok", g |-> ApplyEffectsAndAdvance(g2, card)]

\* the penalty branch of draw_card: the whole pending_draw is drawn and the
\* turn is lost
DrawPenalty(g, pos) ==
  {[r.g EXCEPT !.pending_draw = 0,
               !.must_play_or_pass = FALSE,
               !.current_player_index = _next_index(r.g, 1)] :
     r \in _draw_cards_to_player(g, pos, g.pending_draw)}

\* mutant: a drawn card that is not played keeps the turn with the drawer
DrawnOne_TurnKept(g, pos, drawn_id) ==
  LET drawn == UnoCard(drawn_id)
  IN  IF g.settings.auto_play_if_drawn_playable
         /\ can_play_on(drawn, Top(g), g.current_color)
      THEN LET g1 == [g EXCEPT !.players[pos].hand = RemoveCard(@, drawn_id),
                               !.discard_pile = Append(@, drawn_id)]
               g2 == IF drawn.color \in ValidColorSet
                     THEN [g1 EXCEPT !.current_color = drawn.color]
                     ELSE [g1 EXCEPT !.current_color = "red"]
           IN  ApplyEffectsAndAdvance(g2, drawn)
      ELSE g

\* the state after one drawn card, auto-played if enabled and playable
DrawnOne(g, pos, drawn_id) ==
  LET drawn == UnoCard(drawn_id)
      player == g.players[pos]
  IN  IF g.settings.auto_play_if_drawn_playable
         /\ can_play_on(drawn, Top(g), g.current_color)
      THEN LET g1 == [g EXCEPT !.players[pos].hand = RemoveCard(@, drawn_id),
                               !.discard_pile = Append(@, drawn_id)]
               g2 == IF drawn.value \in {"WILD", "WILD_DRAW_FOUR"}
                     THEN [g1 EXCEPT !.current_color =
                             IF player.is_ai
                             THEN _ai_choose_color(g1.players[pos].hand) ELSE "red"]
                     ELSE IF drawn.color \in ValidColorSet
                     THEN [g1 EXCEPT !.current_color = drawn.color]
                     ELSE g1
           IN  ApplyEffectsAndAdvance(g2, drawn)
      ELSE [g EXCEPT !.current_player_index = _next_index(g, 1)]

\* draw_card after its _require_turn, for the player at position pos
DrawBody(g, pos) ==
  IF g.pending_draw > 0 THEN DrawPenalty(g, pos)
  ELSE {DrawnOne(r.g, pos, r.drawn[1]) : r \in _draw_cards_to_player(g, pos, 1)}

\* every (err, state) draw_card can give
draw_card(g, player_id) ==
  IF _require_turn(g, player_id) # "ok"
  THEN {Raise(_require_turn(g, player_id), g)}
  ELSE {[err |-> "ok", g |-> h] : h \in DrawBody(g, _get_player(g, player_id))}

\* pass_turn after its checks
PassBody(g) ==
  [g EXCEPT !.must_play_or_pass = FALSE,
            !.current_player_index = _next_index(g, 1)]

\* mutant: a pass is accepted while a penalty is pending
pass_turn_NoPendingCheck(g, player_id) ==
  IF _require_turn(g, player_id) # "ok" THEN Raise(_require_turn(g, player_id), g)
  ELSE [err |-> "ok", g |-> PassBody(g)]

\* (err, state)
pass_turn(g, player_id) ==
  IF _require_turn(g, player_id) # "ok" THEN Raise(_require_turn(g, player_id), g)
  ELSE IF g.pending_draw > 0 THEN Raise("PendingDrawUnresolved", g)
  ELSE [err |-> "ok", g |-> PassBody(g)]

Has(patch, key) == key \in DOMAIN patch

\* mutant: handSize is stored without the range check
update_settings_NoRangeCheck(g, patch) ==
  IF Has(patch, "handSize") THEN [g EXCEPT !.settings.hand_size = patch.handSize]
  ELSE g

\* update_settings: the recognised, range-valid fields of the patch
update_settings(g, patch) ==
  LET s == g.settings
      s1 == IF Has(patch, "handSize") /\ patch.handSize \in Int
               /\ 1 <= patch.handSize /\ patch.handSize <= 15
            THEN [s EXCEPT !.hand_size = patch.handSize] ELSE s
      s2 == IF Has(patch, "aiEnabled") /\ patch.aiEnabled \in BOOLEAN
            THEN [s1 EXCEPT !.ai_enabled = patch.aiEnabled] ELSE s1
      ps == IF Has(patch, "aiEnabled") /\ patch.aiEnabled \in BOOLEAN
            THEN [i \in 1..Len(g.players) |->
                    IF i >= 2 THEN [g.players[i] EXCEPT !.is_ai = patch.aiEnabled]
                    ELSE g.players[i]]
            ELSE g.players
      s3 == IF Has(patch, "aiDelayMs") /\ patch.aiDelayMs \in Int
               /\ 0 <= patch.aiDelayMs /\ patch.aiDelayMs <= 5000
            THEN [s2 EXCEPT !.ai_delay_ms = patch.aiDelayMs] ELSE s2
      s4 == IF Has(patch, "autoPlayIfDrawnPlayable")
               /\ patch.autoPlayIfDrawnPlayable \in BOOLEAN
            THEN [s3 EXCEPT !.auto_play_if_drawn_playable = patch.autoPlayIfDrawnPlayable]
            ELSE s3
      s5 == IF Has(patch, "allowIllegalWildDrawFour")
               /\ patch.allowIllegalWildDrawFour \in BOOLEAN
            THEN [s4 EXCEPT !.allow_illegal_wild_draw_four = patch.allowIllegalWildDrawFour]
            ELSE s4
      s6 == IF Has(patch, "scoreLimit") /\ patch.scoreLimit \in Int
               /\ 50 <= patch.scoreLimit /\ patch.scoreLimit <= 5000
            THEN [s5 EXCEPT !.score_limit = patch.scoreLimit] ELSE s5
  IN  [g EXCEPT !.settings = s6, !.players = ps]

-----------------------------------------------------------------------------
(* The automated-player driver *)

\* while state.status == "playing": cur = ...; if not cur.is_ai: return
AiToAct(g) == g.status = "playing" /\ Cur(g).is_ai

\* every state one iteration of the loop of _auto_resolve_ai_turns can leave
AiIteration(g) ==
  LET pos == CurPos(g)
      cur == g.players[pos]
      choice == _ai_choose_play(g, cur)
      played(g0, id) ==
        LET c == UnoCard(id)
            g1 == [g0 EXCEPT !.players[pos].hand = RemoveCard(@, id),
                             !.discard_pile = Append(@, id)]
            g2 == [g1 EXCEPT !.current_color =
                     IF c.color \in ValidColorSet THEN c.color
                     ELSE IF choice.color # NONE THEN choice.color
                     ELSE _ai_choose_color(g1.players[pos].hand)]
        IN  ApplyEffectsAndAdvance(g2, c)
  IN  IF g.pending_draw > 0
      THEN {[r.g EXCEPT !.pending_draw = 0,
                        !.must_play_or_pass = FALSE,
                        !.current_player_index = _next_index(r.g, 1)] :
              r \in _draw_cards_to_player(g, pos, g.pending_draw)}
      ELSE IF choice.chosen = NoCard
      THEN {IF r.g.settings.auto_play_if_drawn_playable
               /\ can_play_on(UnoCard(r.drawn[1]), Top(r.g), r.g.current_color)
            THEN played(r.g, r.drawn[1])
            ELSE [r.g EXCEPT !.current_player_index = _next_index(r.g, 1)] :
              r \in _draw_cards_to_player(g, pos, 1)}
      ELSE {played(g, choice.chosen)}


-----------------------------------------------------------------------------
(* The session: one game, the requests made on it one after the other *)

Modes == {"singleplayer", "vs_ai", "local", "multiplayer"}

PlayerIds == {"p1", "p2", "p3"}

CardInputs == 1..DeckSize

ColorInputs == {"red", "blue", NONE}

PatchInputs == { [scoreLimit |-> 50], [scoreLimit |-> 49] }

Threads == {"t1", "t2"}

\* the cards are those of one deck: the last-resort rebuild has not happened
OneDeck(g) == Cardinality(AllCardIds(g)) <= DeckSize

\* the model follows a session up to its first deck rebuild, and follows play
\* while the scores are within MaxScore
WithinBounds(g) ==
  /\ OneDeck(g)
  /\ \A i \in 1..Len(g.players) : g.players[i].score <= MaxScore

\* where the request stands once the operation's own work is done: inside
\* _auto_resolve_ai_turns while an automated player is to act
\* mutant: the operation returns without running the driver
AfterOp_NoDriver(g) == "idle"

AfterOp(g) == IF AiToAct(g) THEN "ai" ELSE "idle"

NoCalls == [t \in Threads |-> [pc |-> "idle", op |-> NONE, pid |-> NONE]]

\* POST /games: store.create
Init ==
  /\ game \in UNION {new_game(mode) : mode \in Modes}
  /\ pc = "idle"
  /\ last = "create"
  /\ calls = NoCalls

\* POST /games/{id}/play
Play(pid, cid, col) ==
  /\ pc = "idle"
  /\ WithinBounds(game)
  /\ LET r == play_card(game, pid, cid, col)
     IN  /\ r.err = "ok"
         /\ game' = r.g
         /\ pc' = AfterOp(r.g)
  /\ last' = "play"
  /\ UNCHANGED calls

\* POST /games/{id}/draw
Draw(pid) ==
  /\ pc = "idle"
  /\ WithinBounds(game)
  /\ \E r \in draw_card(game, pid) :
       /\ r.err = "ok"
       /\ game' = r.g
       /\ pc' = AfterOp(r.g)
  /\ last' = "draw"
  /\ UNCHANGED calls

\* POST /games/{id}/pass
Pass(pid) ==
  /\ pc = "idle"
  /\ WithinBounds(game)
  /\ LET r == pass_turn(game, pid)
     IN  /\ r.err = "ok"
         /\ game' = r.g
         /\ pc' = AfterOp(r.g)
  /\ last' = "pass"
  /\ UNCHANGED calls

\* one iteration of the loop of _auto_resolve_ai_turns, inside a request
AiTurn ==
  /\ pc = "ai"
  /\ OneDeck(game)
  /\ \E h \in AiIteration(game) :
       /\ game' = h
       /\ pc' = AfterOp(h)
  /\ last' = "ai"
  /\ UNCHANGED calls

\* PATCH /games/{id}/settings: store.patch_settings
PatchSettings(patch) ==
  /\ pc = "idle"
  /\ OneDeck(game)
  /\ game' = update_settings(game, patch)
  /\ pc' = "idle"
  /\ last' = "patch"
  /\ UNCHANGED calls

\* POST /games/{id}/restart: store.restart
Restart ==
  /\ pc = "idle"
  /\ OneDeck(game)
  /\ game' \in restart_round(game)
  /\ pc' = "idle"
  /\ last' = "restart"
  /\ UNCHANGED calls

Next ==
  \/ \E pid \in PlayerIds, cid \in CardInputs, col \in ColorInputs : Play(pid, cid, col)
  \/ \E pid \in PlayerIds : Draw(pid)
  \/ \E pid \in PlayerIds : Pass(pid)
  \/ AiTurn
  \/ \E patch \in PatchInputs : PatchSettings(patch)
  \/ Restart

Spec == Init /\ [][Next]_vars

-----------------------------------------------------------------------------
(* The session with the Wild Draw Four rule switched on and off *)

WildPatchInputs ==
  { [allowIllegalWildDrawFour |-> TRUE], [allowIllegalWildDrawFour |-> FALSE] }

NextWild ==
  \/ \E pid \in PlayerIds, cid \in CardInputs, col \in ColorInputs : Play(pid, cid, col)
  \/ \E pid \in PlayerIds : Draw(pid)
  \/ \E pid \in PlayerIds : Pass(pid)
  \/ AiTurn
  \/ \E patch \in WildPatchInputs : PatchSettings(patch)

WildSpec == Init /\ [][NextWild]_vars

-----------------------------------------------------------------------------
(* The session with handSize patched between rounds *)

\* in range (the scaled deck deals at most 2 cards to each of two players)
\* and out of range on either side
HandSizePatchInputs ==
  { [handSize |-> 2], [handSize |-> 1], [handSize |-> 0], [handSize |-> 16] }

\* rounds are played by drawing alone (a drawn card that can be played is
\* played at once)
NextSettings ==
  \/ \E pid \in PlayerIds : Draw(pid)
  \/ AiTurn
  \/ \E patch \in HandSizePatchInputs : PatchSettings(patch)
  \/ Restart

SettingsSpec == Init /\ [][NextSettings]_vars

-----------------------------------------------------------------------------
(* Requests served by concurrent threads (FastAPI runs the sync endpoints   *)
(* in a thread pool): a request looks its session up with store.get, which *)
(* holds the store's lock for the lookup alone, and then runs the engine   *)
(* function on the session it got.                                         *)

ThreadOps == {"draw", "pass"}

ThreadPlayerIds == {"p1", "p2"}

Idle == [pc |-> "idle", op |-> NONE, pid |-> NONE]

InitThreads ==
  /\ game \in UNION {new_game(mode) : mode \in {"local", "multiplayer"}}
  /\ pc = "idle"
  /\ last = "create"
  /\ calls = NoCalls

\* sess = game_store.get(game_id): the lookup under self._lock; the lock is
\* released when get returns
CallGet(t, op, pid) ==
  /\ calls[t].pc = "idle"
  /\ WithinBounds(game)
  /\ game.status = "playing"
  /\ calls' = [calls EXCEPT ![t] = [pc |-> "got", op |-> op, pid |-> pid]]
  /\ UNCHANGED <<game, pc, last>>

\* the engine function's checks, on the state as the thread finds it
CallCheck(t) ==
  /\ calls[t].pc = "got"
  /\ LET err == IF calls[t].op = "pass" THEN pass_turn(game, calls[t].pid).err
                ELSE _require_turn(game, calls[t].pid)
     IN  calls' = [calls EXCEPT ![t] = IF err = "ok" THEN [@ EXCEPT !.pc = "checked"]
                                       ELSE Idle]
  /\ UNCHANGED <<game, pc, last>>

\* the engine function's mutation, on the state as the thread finds it then
CallMutate(t) ==
  /\ calls[t].pc = "checked"
  /\ game' \in IF calls[t].op = "pass" THEN {PassBody(game)}
               ELSE DrawBody(game, _get_player(game, calls[t].pid))
  /\ calls' = [calls EXCEPT ![t] = Idle]
  /\ last' = calls[t].op
  /\ UNCHANGED pc

NextThreads ==
  \/ \E t \in Threads, op \in ThreadOps, pid \in ThreadPlayerIds : CallGet(t, op, pid)
  \/ \E t \in Threads : CallCheck(t)
  \/ \E t \in Threads : CallMutate(t)

ThreadSpec == InitThreads /\ [][NextThreads]_vars

-----------------------------------------------------------------------------
(* Claims *)

CardCount(g) ==
  Cardinality(g.draw_pile) + Len(g.discard_pile)
    + SumOver([i \in 1..Len(g.players) |-> Len(g.players[i].hand)],
              1..Len(g.players))

\* C1: in every reachable state the draw pile, the discard pile and the hands
\* together hold exactly the cards of one full deck.
C1_CardConservation == CardCount(game) = DeckSize

\* the threads that hold the session and are reading or mutating its game
InEngine == {t \in Threads : calls[t].pc \in {"got", "checked"}}

\* C2: operations on one session are serialized: while one call reads or
\* mutates the session's game state, no other call on that session does.
C2_PerSessionMutex == Cardinality(InEngine) <= 1

\* what a request can ask for: any card id, a colour, none, or a word that is
\* no colour
AttemptCards == CardInputs

AttemptColors == ColorInputs \cup {"purple"}

SeatedIds(g) == {g.players[i].id : i \in 1..Len(g.players)}

\* every play, draw and pass of player pid is refused with error e and
\* leaves the state as it is
AllRefused(g, pid, e) ==
  /\ \A cid \in AttemptCards, col \in AttemptColors :
       play_card(g, pid, cid, col) = [err |-> e, g |-> g]
  /\ draw_card(g, pid) = {[err |-> e, g |-> g]}
  /\ pass_turn(g, pid) = [err |-> e, g |-> g]

\* C3 as stated: in every reachable state, whatever the status, a play, draw
\* or pass by a player who is not players[currentPlayerIndex] fails with the
\* turn violation and leaves the game state unchanged.
C3_TurnViolationInEveryState ==
  \A pid \in SeatedIds(game) \ {Cur(game).id} : AllRefused(game, pid, "NotYourTurn")

\* C3 (amended): in every reachable state whose status is playing, a play,
\* draw or pass by a seated player who is not players[currentPlayerIndex]
\* fails with the turn violation and leaves the game state unchanged.
C3_TurnLegality ==
  game.status = "playing" =>
    \A pid \in SeatedIds(game) \ {Cur(game).id} : AllRefused(game, pid, "NotYourTurn")

C3_Witness ==
  /\ pc = "idle"
  /\ last = "ai"
  /\ game.status = "playing"
  /\ Cur(game).id = "p1"
  /\ pass_turn(game, "p2").err = "NotYourTurn"

\* C4: while the game is playing and pending_draw > 0, every play and the
\* pass of the current player are refused (PendingDrawUnresolved), and the
\* draw succeeds: the drawer's hand grows by exactly pending_draw cards,
\* pending_draw becomes 0, and the turn goes to the next player with the
\* discard top untouched.
C4_PendingDrawPrecedence ==
  (game.status = "playing" /\ game.pending_draw > 0) =>
    LET me == Cur(game).id
        pos == CurPos(game)
        n == Len(game.players)
    IN  /\ \A cid \in AttemptCards, col \in AttemptColors :
             play_card(game, me, cid, col) = [err |-> "PendingDrawUnresolved", g |-> game]
        /\ pass_turn(game, me) = [err |-> "PendingDrawUnresolved", g |-> game]
        /\ draw_card(game, me) # {}
        /\ \A r \in draw_card(game, me) :
             /\ r.err = "ok"
             /\ Len(r.g.players[pos].hand) = Len(game.players[pos].hand) + game.pending_draw
             /\ SubSeq(r.g.players[pos].hand, 1, Len(game.players[pos].hand))
                  = game.players[pos].hand
             /\ \A i \in 1..n : i # pos => r.g.players[i] = game.players[i]
             /\ r.g.pending_draw = 0
             /\ r.g.current_player_index
                  = (game.current_player_index + game.direction) % n
             /\ Last(r.g.discard_pile) = Last(game.discard_pile)
             /\ r.g.current_color = game.current_color
             /\ r.g.status = "playing"

C4_Witness ==
  /\ pc = "idle"
  /\ WithinBounds(game)
  /\ game.status = "playing"
  /\ game.pending_draw = 2
  /\ last = "play"

PlayRefusals ==
  {"PendingDrawUnresolved", "CardNotInHand", "IllegalPlay", "MissingColorChoice",
   "WildDrawFourRestricted"}

\* C5: every play or pass of the current player that is rejected (pending
\* draw, card not in hand, illegal play, missing or invalid colour choice,
\* restricted Wild Draw Four) leaves the game state exactly as it was.
C5_RejectedLeavesState ==
  game.status = "playing" =>
    /\ \A cid \in AttemptCards, col \in AttemptColors :
         LET r == play_card(game, Cur(game).id, cid, col)
         IN  r.err # "ok" => (r.err \in PlayRefusals /\ r.g = game)
    /\ LET r == pass_turn(game, Cur(game).id)
       IN  r.err # "ok" => (r.err = "PendingDrawUnresolved" /\ r.g = game)

C5_Witness ==
  /\ pc = "idle"
  /\ game.status = "playing"
  /\ \E cid \in AttemptCards :
       play_card(game, Cur(game).id, cid, "blue").err = "WildDrawFourRestricted"
  /\ \E cid \in AttemptCards :
       play_card(game, Cur(game).id, cid, "blue").err = "IllegalPlay"

CardPlays == {"play", "draw", "ai"}

\* C6: when a DRAW_TWO or WILD_DRAW_FOUR is played and the round goes on, the
\* penalty it creates falls to a player other than the one who played it.
C6_PenaltyTarget ==
  [][(/\ last' \in CardPlays
      /\ game'.pending_draw > game.pending_draw
      /\ game'.status = "playing")
       => Cur(game').id # Cur(game).id]_vars

\* C7: once a play, draw or pass has returned with the game still playing,
\* the player to act is not automated; and the driver resolves a turn only
\* while the game is playing and the player to act is automated.
C7_DriverStops ==
  /\ (pc = "idle" /\ last \in {"play", "draw", "pass", "ai"} /\ game.status = "playing")
       => ~Cur(game).is_ai
  /\ pc = "ai" => (game.status = "playing" /\ Cur(game).is_ai)

C7_Witness ==
  /\ pc = "idle"
  /\ last = "ai"
  /\ game.status = "playing"
  /\ ~Cur(game).is_ai
  /\ \E i \in 1..Len(game.players) : game.players[i].is_ai

\* every state the loop of _auto_resolve_ai_turns can be in, over all the
\* outcomes of the rng, once it has started in one of the states of frontier
RECURSIVE AiReach(_, _)
AiReach(frontier, seen) ==
  IF frontier = {} THEN seen
  ELSE LET running == {g \in frontier : AiToAct(g) /\ OneDeck(g)}
           next == UNION {AiIteration(g) : g \in running} \ seen
       IN AiReach(next, seen \cup next)

\* C8: a cascade of automated turns, once started, can come to its end: some
\* run of the loop reaches a state where the acting player is human or the
\* status is not playing (or leaves the model's one-deck bound). A cascade
\* that terminates on every run has at least one run that terminates.
C8_DriverCanTerminate ==
  pc = "ai" =>
    \E h \in AiReach({game}, {game}) : ~AiToAct(h) \/ ~OneDeck(h)

\* what a card left in a hand is worth to the winner
Points(card) ==
  CASE card.value \in {"SKIP", "REVERSE", "DRAW_TWO"} -> 20
    [] card.value \in {"WILD", "WILD_DRAW_FOUR"} -> 50
    [] OTHER -> DigitValue[card.value]

HandValue(hand) ==
  SumOver([k \in 1..Len(hand) |-> Points(UnoCard(hand[k]))], 1..Len(hand))

C10_MatchOverTerminal ==
  [][game.status = "match_over" => game'.status = "match_over"]_vars

\* C11: while status is round_over or match_over, every play, draw and pass
\* by any player - the one at current_player_index, the other one, and an id
\* that is no player's - is refused with the not-playing error and leaves the
\* game state unchanged.
C11_NotPlayingRefusesAll ==
  game.status \in {"round_over", "match_over"} =>
    \A pid \in PlayerIds : AllRefused(game, pid, "GameNotPlaying")

C11_Witness ==
  /\ game.status = "round_over"
  /\ Cur(game).id \in PlayerIds
  /\ PlayerIds \ SeatedIds(game) # {}
  /\ SeatedIds(game) \ {Cur(game).id} # {}

IsWild(cid) == UnoCard(cid).value \in {"WILD", "WILD_DRAW_FOUR"}

\* what a request can give as chosenColor: each colour, none, a word that is
\* no colour
WildColorAttempts == ValidColorSet \cup {NONE, "purple", "wild"}

\* C12: a play of a wild card whose chosen colour is absent or is none of the
\* four colours fails, whoever plays it, and changes nothing; a play of a wild
\* card that is accepted leaves the card on top of the discard pile and the
\* active colour equal to the chosen colour.
C12_WildColorRequirement ==
  \A pid \in PlayerIds, cid \in CardInputs, col \in WildColorAttempts :
    IsWild(cid) =>
      LET r == play_card(game, pid, cid, col)
      IN  /\ col \notin ValidColorSet => (r.err # "ok" /\ r.g = game)
          /\ r.err = "ok" =>
               /\ r.g.current_color = col
               /\ Last(r.g.discard_pile) = cid
               /\ cid \notin Range(r.g.players[_get_player(game, pid)].hand)

\* a wild card has just been played with the colour blue chosen
C12_Witness ==
  /\ last = "play"
  /\ IsWild(Last(game.discard_pile))
  /\ game.current_color = "blue"
  /\ game.status = "playing"

\* the player at position pos holds a card other than cid whose colour is
\* the active colour
HoldsActiveColor(g, pos, cid) ==
  \E i \in 1..Len(g.players[pos].hand) :
    /\ g.players[pos].hand[i] # cid
    /\ UnoCard(g.players[pos].hand[i]).color = g.current_color

\* C13: with allowIllegalWildDrawFour false, a WILD_DRAW_FOUR played by the
\* current player who holds another card of the active colour is refused
\* with the card still in the hand and the active colour unchanged - as
\* WildDrawFourRestricted when nothing refuses the play earlier; when the
\* player holds no such card, or the flag is true, the play is accepted.
C13_WildDrawFourRestriction ==
  game.status = "playing" =>
    \A cid \in Range(Cur(game).hand), col \in WildColorAttempts :
      UnoCard(cid).value = "WILD_DRAW_FOUR" =>
        LET r == play_card(game, Cur(game).id, cid, col)
            otherwiseLegal == col \in ValidColorSet /\ game.pending_draw = 0
        IN  IF /\ ~game.settings.allow_illegal_wild_draw_four
               /\ HoldsActiveColor(game, CurPos(game), cid)
            THEN /\ r.err # "ok"
                 /\ r.g = game
                 /\ otherwiseLegal => r.err = "WildDrawFourRestricted"
            ELSE otherwiseLegal =>
                   /\ r.err = "ok"
                   /\ Last(r.g.discard_pile) = cid
                   /\ r.g.current_color = col

\* the current player holds a Wild Draw Four and a card of the active colour
\* while the rule is enforced
C13_Witness ==
  /\ pc = "idle"
  /\ game.status = "playing"
  /\ game.pending_draw = 0
  /\ ~game.settings.allow_illegal_wild_draw_four
  /\ \E cid \in Range(Cur(game).hand) :
       /\ UnoCard(cid).value = "WILD_DRAW_FOUR"
       /\ HoldsActiveColor(game, CurPos(game), cid)
       /\ play_card(game, Cur(game).id, cid, "red").err = "WildDrawFourRestricted"

\* the table of the claim: steps, penalty and flip of a card value at a table
\* of n players
StepCount(v, n) ==
  CASE v = "SKIP" -> 2
    [] v = "REVERSE" -> IF n = 2 THEN 2 ELSE 1
    [] v \in {"DRAW_TWO", "WILD_DRAW_FOUR"} -> 2
    [] OTHER -> 1

PenaltyOf(v) ==
  CASE v = "DRAW_TWO" -> 2
    [] v = "WILD_DRAW_FOUR" -> 4
    [] OTHER -> 0

\* a step that puts a card on the discard pile: a play, a drawn card played
\* at once, or the automated player's card
CardPlayed ==
  /\ last' \in CardPlays
  /\ game.status = "playing"
  /\ Last(game'.discard_pile) # Last(game.discard_pile)

\* the same session with a third player seated: no request seats one, the
\* engine's functions take any number of players
WithThirdPlayer(g) == [g EXCEPT !.players = Append(@, Player("p3", FALSE))]

\* the effect function and the advance at a table of three
EffectsAtTableOfThree ==
  \A k \in 1..DeckSize, idx \in 0..2 :
    LET g3 == [WithThirdPlayer(game) EXCEPT !.current_player_index = idx]
        e == _apply_action_effects_after_play(g3, Deck[k])
        d == IF e.flip THEN -g3.direction ELSE g3.direction
    IN  /\ e.skip_steps = StepCount(Deck[k].value, 3)
        /\ e.flip = (Deck[k].value = "REVERSE")
        /\ e.g.pending_draw = g3.pending_draw + PenaltyOf(Deck[k].value)
        /\ _next_index([e.g EXCEPT !.direction = d], e.skip_steps)
             = (idx + d * StepCount(Deck[k].value, 3)) % 3

\* C14: every card played or auto-played that does not end the round leaves
\* the direction flipped exactly for REVERSE, pending_draw raised by 2 for
\* DRAW_TWO and by 4 for WILD_DRAW_FOUR and unchanged otherwise, and the turn
\* pointer at (index + new direction * steps) mod players, with 2 steps for
\* SKIP, DRAW_TWO, WILD_DRAW_FOUR and for REVERSE between two players, and 1
\* step otherwise; at a table of three REVERSE gives 1 step.
C14_EffectTable ==
  /\ [][(CardPlayed /\ game'.status = "playing") =>
          LET v == UnoCard(Last(game'.discard_pile)).value
              n == Len(game.players)
              d == IF v = "REVERSE" THEN -game.direction ELSE game.direction
          IN  /\ game'.direction = d
              /\ game'.pending_draw = game.pending_draw + PenaltyOf(v)
              /\ game'.current_player_index
                   = (game.current_player_index + d * StepCount(v, n)) % n]_vars
  /\ []EffectsAtTableOfThree

\* a REVERSE has just been played between two players and the round goes on
C14_Witness ==
  /\ last \in CardPlays
  /\ game.status = "playing"
  /\ Len(game.players) = 2
  /\ Len(game.discard_pile) >= 2
  /\ UnoCard(Last(game.discard_pile)).value = "REVERSE"
  /\ game.direction = -1

\* the cards of the current player's hand with that value that play_card
\* accepts now
PlayableOf(g, v) ==
  {cid \in Range(Cur(g).hand) :
     /\ UnoCard(cid).value = v
     /\ play_card(g, Cur(g).id, cid, NONE).err = "ok"}

\* the state play_card leaves from its line 592 on, had the card it put on
\* the discard pile been of kind k
AdvanceFor(g, k) == ApplyEffectsAndAdvance(g, Deck[k])

KindsOf(v) == {k \in 1..DeckSize : Deck[k].value = v}

\* C15: between exactly two players, from one and the same state, playing a
\* REVERSE and playing a SKIP lead to the same current_player_index: the
\* player who played acts again, whatever the direction. Stated of the plays
\* play_card accepts where the hand offers both cards, and of the effect and
\* advance of play_card in every playing state.
C15_ReverseIsSkipForTwo ==
  (game.status = "playing" /\ Len(game.players) = 2) =>
    /\ \A s \in PlayableOf(game, "SKIP"), r \in PlayableOf(game, "REVERSE") :
         LET afterSkip == play_card(game, Cur(game).id, s, NONE).g
             afterReverse == play_card(game, Cur(game).id, r, NONE).g
         IN  /\ afterSkip.current_player_index = afterReverse.current_player_index
             /\ afterSkip.current_player_index = game.current_player_index
             /\ afterReverse.direction = -game.direction
             /\ afterSkip.direction = game.direction
    /\ \A s \in KindsOf("SKIP"), r \in KindsOf("REVERSE") :
         /\ AdvanceFor(game, s).current_player_index
              = AdvanceFor(game, r).current_player_index
         /\ AdvanceFor(game, r).current_player_index = game.current_player_index

\* the current player of a two-player game can play a SKIP and can play a
\* REVERSE
C15_Witness ==
  /\ pc = "idle"
  /\ game.status = "playing"
  /\ Len(game.players) = 2
  /\ PlayableOf(game, "SKIP") # {}
  /\ PlayableOf(game, "REVERSE") # {}

\* the draw pile is empty and the discard pile has cards under its top
ReshuffleDue(g) == g.draw_pile = {} /\ Len(g.discard_pile) >= 2

\* what the reshuffle leaves of state g, in h
Reshuffled(g, h) ==
  /\ h.discard_pile = <<Last(g.discard_pile)>>
  /\ h.draw_pile = Range(Front(g.discard_pile))
  /\ Cardinality(h.draw_pile) = Len(g.discard_pile) - 1
  /\ h.players = g.players
  /\ CardCount(h) = CardCount(g)

\* C16: when a card is drawn while the draw pile is empty and the discard
\* pile has at least 2 cards, the top discard card stays as the single card
\* of the discard pile, the other former discard cards and only those form
\* the new draw pile, from which the card is drawn, and the number of cards
\* in piles and hands is unchanged.
C16_ReshuffleCorrect ==
  /\ [](ReshuffleDue(game) =>
          /\ Reshuffled(game, _reshuffle_if_needed(game))
          /\ \A one \in _draw_one(game) :
               /\ one.c \in Range(Front(game.discard_pile))
               /\ one.g.discard_pile = <<Last(game.discard_pile)>>
               /\ one.g.draw_pile = Range(Front(game.discard_pile)) \ {one.c}
               /\ CardCount(one.g) + 1 = CardCount(game))
  /\ [][(/\ ReshuffleDue(game)
         /\ last' = "draw"
         /\ game.pending_draw <= Len(game.discard_pile) - 1)
          => /\ game'.discard_pile[1] = Last(game.discard_pile)
             /\ game'.draw_pile \subseteq Range(Front(game.discard_pile))
             /\ AllCardIds(game') = AllCardIds(game)
             /\ CardCount(game') = CardCount(game)]_vars

\* the current player can draw, the draw pile is empty and the discard pile
\* holds cards under its top: the draw reshuffles them and takes one of them
\* (which it plays at once: the old top lies under it)
C16_Witness ==
  /\ pc = "idle"
  /\ game.status = "playing"
  /\ ReshuffleDue(game)
  /\ \E r \in draw_card(game, Cur(game).id) :
       /\ r.err = "ok"
       /\ Len(r.g.discard_pile) = 2
       /\ r.g.discard_pile[1] = Last(game.discard_pile)
       /\ r.g.discard_pile[2] \in Range(Front(game.discard_pile))
       /\ r.g.draw_pile = Range(Front(game.discard_pile)) \ {r.g.discard_pile[2]}
       /\ CardCount(r.g) = DeckSize

\* every state game creation can give
NewGames == UNION {new_game(mode) : mode \in Modes}

\* who a player is and what the player has scored, hand apart
Seat(p) == [id |-> p.id, is_ai |-> p.is_ai, score |-> p.score]

Seats(g) == [i \in 1..Len(g.players) |-> Seat(g.players[i])]

TurnState(g) == <<g.current_player_index, g.direction, g.pending_draw>>

\* the starting discard, the number of players and the turn state of every
\* state game creation can give
CreationOutcomes ==
  {[discard_pile |-> c.discard_pile, seats |-> Len(c.players), turn |-> TurnState(c)] :
     c \in NewGames}

\* index 0, direction +1, no penalty, then the starting card's effect: the
\* flip for REVERSE, the penalty, and the advance by one step less than a
\* play of the card gives
StartOfRound(v, n) ==
  LET d == IF v = "REVERSE" THEN -1 ELSE 1
  IN  <<(0 + d * (StepCount(v, n) - 1)) % n, d, PenaltyOf(v)>>

\* C17: a restart, from any state, leaves status playing, the players and
\* their scores as they were, handSize cards in every hand, one card on the
\* discard pile, no winner, and the turn pointer, direction and pending_draw
\* that game creation gives for the same starting card: index 0, direction
\* +1, pending 0, then the starting card's effect.
C17_RestartAsCreation ==
  [][last' = "restart" =>
       /\ game'.status = "playing"
       /\ Seats(game') = Seats(game)
       /\ \A i \in 1..Len(game'.players) :
            Len(game'.players[i].hand) = game.settings.hand_size
       /\ Len(game'.discard_pile) = 1
       /\ game'.winner_player_id = NONE
       /\ TurnState(game')
            = StartOfRound(UnoCard(game'.discard_pile[1]).value, Len(game.players))
       /\ \A c \in CreationOutcomes :
            (/\ c.discard_pile = game'.discard_pile
             /\ c.seats = Len(game'.players))
              => c.turn = TurnState(game')]_vars

\* a restart has just ended a round that was won, with a penalty card as the
\* starting card
C17_Witness ==
  /\ last = "restart"
  /\ game.status = "playing"
  /\ game.pending_draw = 2
  /\ \E i \in 1..Len(game.players) : game.players[i].score > 0

HandSizeRange == 1..15

\* C18: a handSize patch with a value below 1 or above 15 leaves handSize and
\* every other setting as they were; a patch with a value in range changes
\* that settings field and nothing else - hands and piles stay as dealt - and
\* the next restart deals every player exactly the new handSize cards: every
\* restart deals the handSize of the settings, which only a patch changes.
C18_HandSizePatch ==
  /\ [](\A patch \in HandSizePatchInputs :
          LET h == update_settings(game, patch)
          IN  IF patch.handSize \in HandSizeRange
              THEN /\ h = [game EXCEPT !.settings.hand_size = patch.handSize]
                   /\ h.players = game.players
                   /\ h.draw_pile = game.draw_pile
                   /\ h.discard_pile = game.discard_pile
              ELSE h = game)
  /\ [][last' = "patch" =>
          /\ game' \in {update_settings(game, patch) : patch \in HandSizePatchInputs}
          /\ [game' EXCEPT !.settings.hand_size = game.settings.hand_size] = game]_vars
  /\ [][last' # "patch" => game'.settings = game.settings]_vars
  /\ [][last' = "restart" =>
          \A i \in 1..Len(game'.players) :
            Len(game'.players[i].hand) = game.settings.hand_size]_vars

\* a restart has just dealt two cards to every player, after handSize was
\* patched from 1 to 2
C18_Witness ==
  /\ last = "restart"
  /\ DefaultHandSize # 2
  /\ game.settings.hand_size = 2
  /\ \A i \in 1..Len(game.players) : Len(game.players[i].hand) = 2

\* as_public_state: the view of state g returned to the requester who gives
\* you_player_id (the per-player entries are built with the hand of the
\* requester and then copied without it)
as_public_state(g, you_player_id) ==
  LET found == {i \in 1..Len(g.players) : g.players[i].id = you_player_id}
      you == IF found = {} THEN g.players[1]
             ELSE g.players[CHOOSE i \in found : \A j \in found : i <= j]
  IN  [status |-> g.status,
       currentPlayerIndex |-> g.current_player_index,
       direction |-> g.direction,
       players |-> [i \in 1..Len(g.players) |->
                      [id |-> g.players[i].id,
                       isAI |-> g.players[i].is_ai,
                       score |-> g.players[i].score,
                       handCount |-> Len(g.players[i].hand),
                       isYou |-> g.players[i].id = you_player_id]],
       you |-> [playerId |-> you.id, hand |-> you.hand],
       discardTop |-> IF g.discard_pile = <<>> THEN NONE ELSE Last(g.discard_pile),
       currentColor |-> g.current_color,
       drawPileCount |-> Cardinality(g.draw_pile),
       pendingDraw |-> g.pending_draw,
       mustPlayOrPass |-> g.must_play_or_pass,
       winnerPlayerId |-> g.winner_player_id,
       settings |-> g.settings]

\* the players whose hand contents a view shows
HandsShown(view) == {view.you.playerId}

\* C19: in every state and for every requesting id, the view shows the hand
\* contents of the player with the requesting id and of nobody else, and
\* hand counts only for every other player; a requesting id that is no
\* player's shows no player's hand.
C19_ViewHidesHands ==
  \A pid \in PlayerIds :
    LET view == as_public_state(game, pid)
    IN  /\ \A i \in 1..Len(game.players) :
             /\ "hand" \notin DOMAIN view.players[i]
             /\ view.players[i].handCount = Len(game.players[i].hand)
        /\ IF pid \in SeatedIds(game)
           THEN /\ HandsShown(view) = {pid}
                /\ view.you.hand = game.players[_get_player(game, pid)].hand
           ELSE HandsShown(view) \cap SeatedIds(game) = {}

\* C20: in every reachable state the cards of the draw pile, the discard pile
\* and the hands have pairwise distinct ids: there are as many cards as there
\* are ids, so no id is in two places or twice in one place.
C20_NoDuplicateIds == CardCount(game) = Cardinality(AllCardIds(game))

\* the last-resort rebuild has happened: a second deck's cards are in the
\* session beside the first deck's
C20_Witness ==
  /\ ~OneDeck(game)
  /\ CardCount(game) = 2 * DeckSize
  /\ Cardinality(AllCardIds(game)) = 2 * DeckSize

\* Two runs with one seed and one script: random.Random(seed) gives both runs
\* the same outcomes, so both are in the same state game. The ids are not
\* taken from it: the game id and every card id come from uuid.uuid4(), whose
\* outcomes each run draws for itself.
UuidSources == {"u1", "u2"}

\* gid = uuid.uuid4().hex, in the run that draws its uuids from u
GameId(u) == <<u, 0>>

\* _new_card_id(): the id the run that draws its uuids from u gives the card
\* the model numbers n
_new_card_id(u, n) == <<u, n>>

\* the view a run returns: as_public_state with the ids of that run
RunView(g, u, you_player_id) ==
  LET view == as_public_state(g, you_player_id)
  IN  [view |-> [view EXCEPT
                   !.you.hand = [i \in 1..Len(@) |-> _new_card_id(u, @[i])],
                   !.discardTop = IF g.discard_pile = <<>> THEN NONE ELSE _new_card_id(u, @)],
       gameId |-> GameId(u)]

\* C21: two runs that create a session with the same seed and perform the
\* same sequence of actions end with identical public views: same game id,
\* card ids, hands, piles, turn pointer and status.
C21_SeedDeterminesView ==
  \A u1 \in UuidSources, u2 \in UuidSources, pid \in SeatedIds(game) :
    RunView(game, u1, pid) = RunView(game, u2, pid)

\* C22: every iteration of the loop of _auto_resolve_ai_turns either ends
\* the round or leaves the turn with a player other than the automated
\* player that has just acted.
C22_IterationAdvances ==
  [][last' = "ai" =>
       \/ game'.status # "playing"
       \/ game'.current_player_index # game.current_player_index]_vars

HasAutomatedPlayer(g) == \E i \in 1..Len(g.players) : g.players[i].is_ai

\* C23: after creation and after a restart of a session with an automated
\* opponent, when status is playing the player at current_player_index is
\* human: a starting SKIP, REVERSE, DRAW_TWO or WILD_DRAW_FOUR does not leave
\* the turn with the automated player.
C23_StartOfRoundControl ==
  (/\ last \in {"create", "restart"}
   /\ game.status = "playing"
   /\ HasAutomatedPlayer(game))
    => ~Cur(game).is_ai

-----------------------------------------------------------------------------
(* The session with aiEnabled patched on *)

AiEnabledPatchInputs == { [aiEnabled |-> TRUE] }

NextAiEnabled ==
  \/ \E pid \in PlayerIds, cid \in CardInputs, col \in ColorInputs : Play(pid, cid, col)
  \/ \E pid \in PlayerIds : Draw(pid)
  \/ \E pid \in PlayerIds : Pass(pid)
  \/ AiTurn
  \/ \E patch \in AiEnabledPatchInputs : PatchSettings(patch)

AiEnabledSpec == Init /\ [][NextAiEnabled]_vars

\* C24: no patchSettings call turns a human player into an automated one
\* (the only aiEnabled patches of AiEnabledSpec switch it on, so a player
\* that is not automated was created human).
C24_HumansStayHuman ==
  [][last' = "patch" =>
       \A i \in 1..Len(game.players) :
         ~game.players[i].is_ai => ~game'.players[i].is_ai]_vars

\* C25: with allowIllegalWildDrawFour false, no WILD_DRAW_FOUR goes from a
\* hand to the discard pile while that hand holds another card of the active
\* colour - played through play, auto-played after a draw, or chosen by the
\* automated player.
C25_WildDrawFourEveryPath ==
  [][(/\ last' \in CardPlays
      /\ game.status = "playing"
      /\ ~game.settings.allow_illegal_wild_draw_four
      /\ Last(game'.discard_pile) # Last(game.discard_pile)
      /\ Top(game').value = "WILD_DRAW_FOUR")
       => ~HoldsActiveColor(game, CurPos(game), Last(game'.discard_pile))]_vars

-----------------------------------------------------------------------------
(* The session followed through its second deck, rounds played by drawing *)

\* the cards are those of at most two decks: the last-resort rebuild has
\* happened at most once
WithinTwoDecks(g) ==
  /\ Cardinality(AllCardIds(g)) <= 2 * DeckSize
  /\ \A i \in 1..Len(g.players) : g.players[i].score <= MaxScore

\* POST /games/{id}/draw
DrawLong(pid) ==
  /\ pc = "idle"
  /\ WithinTwoDecks(game)
  /\ \E r \in draw_card(game, pid) :
       /\ r.err = "ok"
       /\ game' = r.g
       /\ pc' = AfterOp(r.g)
  /\ last' = "draw"
  /\ UNCHANGED calls

\* one iteration of the loop of _auto_resolve_ai_turns, inside a request
AiTurnLong ==
  /\ pc = "ai"
  /\ WithinTwoDecks(game)
  /\ \E h \in AiIteration(game) :
       /\ game' = h
       /\ pc' = AfterOp(h)
  /\ last' = "ai"
  /\ UNCHANGED calls

NextLong ==
  \/ \E pid \in PlayerIds : DrawLong(pid)
  \/ AiTurnLong

LongSpec == Init /\ [][NextLong]_vars

\* the cards that are in the drawer's hand or on top of the discard pile in
\* h and were in neither place in g
DrawnCards(g, h) ==
  (Range(h.players[CurPos(g)].hand) \cup {Last(h.discard_pile)})
    \ (Range(g.players[CurPos(g)].hand) \cup {Last(g.discard_pile)})

\* the discard pile a draw leaves under a card it plays: the pile of g, or
\* its top alone when the draw pile was empty and the pile was reshuffled
PileAfterDraw(g) ==
  IF ReshuffleDue(g) THEN <<Last(g.discard_pile)>> ELSE g.discard_pile

\* card c has left the draw pile between g and h (the draw pile of g, or the
\* pile the reshuffle or the rebuild has made of it)
LeftDrawPile(g, h, c) ==
  /\ c \notin h.draw_pile
  /\ IF g.draw_pile # {}
     THEN c \in g.draw_pile /\ h.draw_pile = g.draw_pile \ {c}
     ELSE IF ReshuffleDue(g)
     THEN /\ c \in Range(Front(g.discard_pile))
          /\ h.draw_pile = Range(Front(g.discard_pile)) \ {c}
     ELSE Cardinality(h.draw_pile) = DeckSize - 1

\* what a draw with no pending penalty makes of g, in h; keptPile is the
\* discard pile the claim expects after a drawn card that is not played
DrawOutcome(g, h, keptPile) ==
  LET pos == CurPos(g)
      n == Len(g.players)
  IN  /\ Cardinality(DrawnCards(g, h)) = 1
      /\ \A i \in 1..n : i # pos => h.players[i] = g.players[i]
      /\ h.status = "playing"
      /\ LET c == CHOOSE x \in DrawnCards(g, h) : TRUE
             v == UnoCard(c).value
             d == IF v = "REVERSE" THEN -g.direction ELSE g.direction
         IN  /\ LeftDrawPile(g, h, c)
             /\ IF /\ g.settings.auto_play_if_drawn_playable
                   /\ can_play_on(UnoCard(c), Top(g), g.current_color)
                THEN /\ h.discard_pile = Append(PileAfterDraw(g), c)
                     /\ h.players[pos].hand = g.players[pos].hand
                     /\ UnoCard(c).color \in ValidColorSet
                          => h.current_color = UnoCard(c).color
                     /\ (UnoCard(c).color = "wild" /\ ~g.players[pos].is_ai)
                          => h.current_color = "red"
                     /\ h.direction = d
                     /\ h.pending_draw = PenaltyOf(v)
                     /\ h.current_player_index
                          = (g.current_player_index + d * StepCount(v, n)) % n
                ELSE /\ h.players[pos].hand = Append(g.players[pos].hand, c)
                     /\ h.discard_pile = keptPile
                     /\ h.current_color = g.current_color
                     /\ h.direction = g.direction
                     /\ h.pending_draw = 0
                     /\ h.current_player_index
                          = (g.current_player_index + g.direction) % n

C28_PenaltyNeverStacks ==
  /\ [](game.pending_draw \in {0, 2, 4})
  /\ [][(/\ last' \in CardPlays \cup {"restart"}
         /\ Last(game'.discard_pile) # Last(game.discard_pile)
         /\ PenaltyOf(Top(game').value) > 0)
          => /\ (last' # "restart" => game.pending_draw = 0)
             /\ game'.pending_draw = PenaltyOf(Top(game').value)]_vars
  /\ [][(last' \in CardPlays /\ game.pending_draw > 0)
          => /\ game'.pending_draw = 0
             /\ Last(game'.discard_pile) = Last(game.discard_pile)
             /\ Len(game'.players[CurPos(game)].hand)
                  = Len(Cur(game).hand) + game.pending_draw]_vars

\* a DRAW_TWO has been played on another card and its penalty of 2 is pending
C28_Witness ==
  /\ last \in CardPlays
  /\ game.status = "playing"
  /\ Len(game.discard_pile) >= 2
  /\ Top(game).value = "DRAW_TWO"
  /\ game.pending_draw = 2

-----------------------------------------------------------------------------
(* The session followed into the rounds after the first score *)

MaxCarried == 1

\* play is followed while the scores carried into a round are within
\* MaxCarried
ScoresCarried(g) ==
  /\ OneDeck(g)
  /\ \A i \in 1..Len(g.players) : g.players[i].score <= MaxCarried

\* POST /games/{id}/play
PlayCarried(pid, cid, col) ==
  /\ pc = "idle"
  /\ ScoresCarried(game)
  /\ LET r == play_card(game, pid, cid, col)
     IN  /\ r.err = "ok"
         /\ game' = r.g
         /\ pc' = AfterOp(r.g)
  /\ last' = "play"
  /\ UNCHANGED calls

\* POST /games/{id}/draw
DrawCarried(pid) ==
  /\ pc = "idle"
  /\ ScoresCarried(game)
  /\ \E r \in draw_card(game, pid) :
       /\ r.err = "ok"
       /\ game' = r.g
       /\ pc' = AfterOp(r.g)
  /\ last' = "draw"
  /\ UNCHANGED calls

NextScores ==
  \/ \E pid \in PlayerIds, cid \in CardInputs, col \in ColorInputs :
       PlayCarried(pid, cid, col)
  \/ \E pid \in PlayerIds : DrawCarried(pid)
  \/ AiTurn
  \/ \E patch \in PatchInputs : PatchSettings(patch)
  \/ Restart

ScoreSpec == Init /\ [][NextScores]_vars

ScoreChanged(i) == game'.players[i].score # game.players[i].score

\* C29: no step lowers a player's score; a score changes only in a step that
\* takes status from playing to round_over or match_over, and then only the
\* score of the round's winner; restart and patchSettings change no score.
C29_ScoresMonotone ==
  [][/\ \A i \in 1..Len(game.players) :
          game'.players[i].score >= game.players[i].score
     /\ \A i \in 1..Len(game.players) :
          ScoreChanged(i) =>
            /\ game.status = "playing"
            /\ game'.status \in {"round_over", "match_over"}
            /\ game'.players[i].id = game'.winner_player_id
     /\ last' \in {"restart", "patch"} =>
          \A i \in 1..Len(game.players) : ~ScoreChanged(i)
     /\ Len(game'.players) = Len(game.players)]_vars

\* a round has just been won by a player who had won a round before: the
\* deck has one card worth 1 point, so a score of 2 is the sum of two rounds
C29_Witness ==
  /\ last \in CardPlays
  /\ game.status = "round_over"
  /\ \E i \in 1..Len(game.players) :
       /\ game.players[i].id = game.winner_player_id
       /\ game.players[i].score = 2

====
